---- MODULE Spec2Model ----
(***************************************************************************)
(* The site traversal of mcp-server-webscan: crawlPage (utils/webUtils.ts) *)
(* driven by CrawlSiteService.crawlWebsite.                                *)
(*                                                                         *)
(* One traversal is a tree of crawlPage invocations.  JavaScript runs each *)
(* invocation without interruption up to its first await (the fetch), and  *)
(* resumes it when the fetch completes; everything that then runs before   *)
(* control goes back to the event loop (link extraction, the synchronous   *)
(* prefix of every child invocation, and every Promise.all that thereby    *)
(* becomes settled, up to crawlWebsite itself) is one atomic step.         *)
(***************************************************************************)
EXTENDS Integers, Sequences, FiniteSets, TLC

VARIABLES
    site,       \* the target: normalised URL -> the href values of its anchors, in page order
    phase,      \* "idle" | "crawling" | "done" | "error"   (crawlWebsite)
    seed,       \* startUrl as the caller gave it
    maxDepth,   \* maxDepth as the caller gave it
    visited,    \* the Set<string> created by crawlWebsite and shared by all invocations
    frames,     \* the crawlPage invocations that passed the check of line 15, in call order
    issued,     \* the GET requests issued so far (axios.get), in order
    completed,  \* the frames whose fetch has completed, in completion order
    errorLog,   \* logger.error calls so far
    returned,   \* the array the top-level crawlPage call resolved to
    result,     \* the CrawlResult crawlWebsite (the SitemapResult generateSitemap) returned
    tool,       \* "crawl" | "sitemap": the service method the request runs
    limit,      \* limit as the caller gave it (generateSitemap)
    chk,        \* the state of one checkLinksOnPage call
    other       \* a second crawl invocation running in the same process

aux == <<tool, limit, chk, other>>

vars == <<site, phase, seed, maxDepth, visited, frames, issued, completed,
          errorLog, returned, result, tool, limit, chk, other>>

(***************************************************************************)
(* Bounds                                                                  *)
(***************************************************************************)
MaxDepthBound == 3
MaxAnchors == 2

(***************************************************************************)
(* URLs and hrefs.  A URL string is kept as its origin (scheme+host+port)  *)
(* and the rest; an empty rest is the form "https://e.test" that only a    *)
(* caller-supplied string can have.                                        *)
(***************************************************************************)
U(o, p) == [o |-> o, p |-> p]

E == "https://e.test"
O == "https://o.test"
H == "http://e.test"
P == "https://e.test.o.test"

S == U(E, "/")
A == U(E, "/a")
B == U(E, "/b")
T == U(E, "/t")
W == U(E, "/w")
V == U(E, "/v")
X == U(O, "/")
C == U(E, "/c")

\* new URL(x).toString(): an empty path is serialised as "/"
Normalize(u) == [o |-> u.o, p |-> IF u.p = "" THEN "/" ELSE u.p]

\* new URL(x).origin
Origin(u) == u.o

\* href values as they stand in the page
Abs(u)  == [k |-> "abs", o |-> u.o, p |-> u.p]     \* "https://e.test/a"
Rel(p)  == [k |-> "rel", p |-> p]                  \* "/a"
Frag    == [k |-> "frag"]                          \* "#top"
Mailto  == [k |-> "mailto"]                        \* "mailto:x@e.test"
Tel     == [k |-> "tel"]                           \* "tel:+1"
Empty   == [k |-> "empty"]                         \* ""
Bad     == [k |-> "bad"]                           \* "http://[", new URL throws

\* line 33: href && !startsWith('#') && !startsWith('mailto:') && !startsWith('tel:')
Followable(h) == h.k \notin {"empty", "frag", "mailto", "tel"}

\* line 35: new URL(href, url) throws on a malformed href
Resolvable(h) == h.k # "bad"

\* line 35: new URL(href, url).toString()
Resolve(h, base) ==
    IF h.k = "abs" THEN Normalize(U(h.o, h.p)) ELSE U(Origin(base), h.p)

Range(s) == {s[i] : i \in 1..Len(s)}

\* the one element of a singleton; The({e(x) : x \in {v}}) is e with x bound
\* to the value of v, computed once
The(set) == CHOOSE x \in set : TRUE

\* The mutant of KeepLink: the origin test is missing.
KeepLinkAnyOrigin(url, abs, links) == abs \notin Range(links)

\* line 37: same origin as the page, and not yet in links
KeepLink(url, abs, links) ==
    Origin(abs) = Origin(url) /\ abs \notin Range(links)

\* The mutant of ExtractFrom: a malformed href ends the extraction.
RECURSIVE ExtractFromAborts(_, _, _, _)
ExtractFromAborts(url, anchors, i, links) ==
    IF i > Len(anchors) THEN links
    ELSE LET h == anchors[i] IN
         IF Followable(h) /\ ~Resolvable(h) THEN links
         ELSE IF Followable(h) /\ KeepLink(url, Resolve(h, url), links)
         THEN ExtractFromAborts(url, anchors, i + 1, Append(links, Resolve(h, url)))
         ELSE ExtractFromAborts(url, anchors, i + 1, links)

\* lines 26-44: the links Set of one page, in insertion order
RECURSIVE ExtractFrom(_, _, _, _)
ExtractFrom(url, anchors, i, links) ==
    IF i > Len(anchors) THEN links
    ELSE LET h == anchors[i] IN
         IF Followable(h) /\ Resolvable(h) /\ KeepLink(url, Resolve(h, url), links)
         THEN ExtractFrom(url, anchors, i + 1, Append(links, Resolve(h, url)))
         ELSE ExtractFrom(url, anchors, i + 1, links)

ExtractLinks(url, anchors) == ExtractFrom(url, anchors, 1, <<>>)

(***************************************************************************)
(* Targets                                                                 *)
(***************************************************************************)
\* A -> B -> A, with a self-link
CycleSite ==
    (S :> <<Rel("/a"), Rel("/")>>) @@ (A :> <<Abs(S), Rel("/a"), Rel("/b")>>)
    @@ (B :> <<Rel("/a")>>)

\* same-origin, cross-origin, other-scheme, non-navigational and malformed hrefs
ScopeSite ==
    (S :> <<Frag, Abs(X), Bad, Rel("/a"), Mailto, Abs(U(H, "/a")), Abs(A), Tel, Empty>>)
    @@ (A :> <<Abs(U(O, "/a")), Abs(U(E, "")), Rel("/b")>>)
    @@ (B :> <<>>) @@ (X :> <<Abs(T)>>) @@ (T :> <<>>)

\* two siblings that converge on one page
DiamondSite ==
    (S :> <<Rel("/a"), Rel("/b")>>) @@ (A :> <<Rel("/t")>>)
    @@ (B :> <<Rel("/t"), Rel("/v")>>) @@ (T :> <<Rel("/")>>) @@ (V :> <<>>)

\* /t is two links from the seed through /a and three through /b, /w
RaceSite ==
    (S :> <<Rel("/a"), Rel("/b")>>) @@ (A :> <<Rel("/t")>>) @@ (B :> <<Rel("/w")>>)
    @@ (W :> <<Rel("/t")>>) @@ (T :> <<Rel("/v")>>) @@ (V :> <<Rel("/")>>)

\* a link to another host whose name begins with the name of the seed's host
PrefixSite ==
    (S :> <<Abs(U(P, "/")), Rel("/a")>>) @@ (A :> <<>>) @@ (U(P, "/") :> <<Rel("/a")>>)
    @@ (U(P, "/a") :> <<>>)

\* RaceSite with a third link of the seed, /c, that the target does not serve
RaceFailSite ==
    (S :> <<Rel("/c"), Rel("/a"), Rel("/b")>>) @@ (A :> <<Rel("/t")>>)
    @@ (B :> <<Rel("/w")>>) @@ (W :> <<Rel("/t")>>) @@ (T :> <<Rel("/v")>>)
    @@ (V :> <<Rel("/")>>)

Fixtures == {CycleSite, ScopeSite, DiamondSite, RaceSite, PrefixSite, RaceFailSite}

\* every site of two pages whose anchors are drawn from GenHrefs
GenHrefs == {Rel("/"), Rel("/a"), Abs(X)}
RECURSIVE SeqsUpTo(_, _)
SeqsUpTo(set, n) ==
    IF n = 0 THEN {<<>>}
    ELSE LET shorter == SeqsUpTo(set, n - 1) IN
         shorter \cup {Append(s, x) : s \in {t \in shorter : Len(t) = n - 1}, x \in set}
GenSites == {(S :> a) @@ (A :> b) : a, b \in SeqsUpTo(GenHrefs, MaxAnchors)}

Sites == Fixtures \cup GenSites

\* the strings a caller may pass as startUrl
Seeds == {S, U(E, ""), A}

HasPage(url) == Normalize(url) \in DOMAIN site
PageOf(url) == site[Normalize(url)]

(***************************************************************************)
(* crawlPage                                                               *)
(***************************************************************************)
NoFrame == 0

\* The mutant of Prune: an off-by-one depth test.
PruneOffByOne(url, depth, max, vis) == depth > max + 1 \/ url \in vis

\* The mutant of Prune: the visited test is missing.
PruneDepthOnly(url, depth, max, vis) == depth > max

\* The mutant of Prune: a sitemap traversal stops claiming URLs once it holds
\* limit of them.
PruneAtLimit(url, depth, max, vis) ==
    depth > max \/ url \in vis \/ (tool = "sitemap" /\ Cardinality(vis) >= limit)

\* line 15: depth > maxDepth || visited.has(url)
Prune(url, depth, max, vis) == depth > max \/ url \in vis

\* The mutant of Claim: the URL is not added to the visited set.
ClaimForgets(vis, url) == vis

\* line 19: visited.add(url)
Claim(vis, url) == vis \cup {url}

\* lines 15-25: one call of crawlPage up to its first await.  st is the
\* shared state [vis, fr, get, max]; the value is the state after the call and the
\* frame the call created (NoFrame when it returned [] at line 16).
Enter(st, url, depth, max, parent) ==
    IF Prune(url, depth, max, st.vis)
    THEN [st |-> st, id |-> NoFrame]
    ELSE [st |-> [st EXCEPT
                     !.vis = Claim(st.vis, url),
                     !.fr  = Append(st.fr,
                                [url |-> url, depth |-> depth, parent |-> parent,
                                 status |-> "fetching", kids |-> <<>>,
                                 urls |-> <<url>>, outcome |-> "pending", seq |-> 0]),
                     !.get = Append(st.get, url)],
          id |-> Len(st.fr) + 1]

\* line 49: Array.from(links).map(link => crawlPage(link, depth + 1, ...)); the
\* calls run one after another, each up to its first await
RECURSIVE SpawnKids(_, _, _, _, _)
SpawnKids(st, links, i, parent, kids) ==
    IF i > Len(links) THEN [st |-> st, kids |-> kids]
    ELSE The({SpawnKids(e.st, links, i + 1, parent,
                        Append(kids, [link |-> links[i], frame |-> e.id])) :
              e \in {Enter(st, links[i], st.fr[parent].depth + 1, st.max, parent)}})

KidFrames(fr, f) ==
    {fr[f].kids[i].frame : i \in 1..Len(fr[f].kids)} \ {NoFrame}

NumSettled(fr) == Cardinality({j \in 1..Len(fr) : fr[j].outcome # "pending"})

\* The mutant of KidsJoined: the children are not awaited.
KidsNotAwaited(fr, f) == TRUE

\* line 50: await Promise.all(crawlPromises) is over
KidsJoined(fr, f) ==
    \/ \A k \in KidFrames(fr, f) : fr[k].outcome = "fulfilled"
    \/ \E k \in KidFrames(fr, f) : fr[k].outcome = "rejected"

RECURSIVE ConcatKids(_, _, _)
ConcatKids(fr, kids, i) ==
    IF i > Len(kids) THEN <<>>
    ELSE (IF kids[i].frame = NoFrame THEN <<>> ELSE fr[kids[i].frame].urls)
         \o ConcatKids(fr, kids, i + 1)

\* the child frames of f that have settled, in the order in which they settled
RECURSIVE BySettleOrder(_, _)
BySettleOrder(fr, ks) ==
    IF ks = {} THEN <<>>
    ELSE LET k == CHOOSE x \in ks : \A y \in ks : fr[x].seq <= fr[y].seq IN
         fr[k].urls \o BySettleOrder(fr, ks \ {k})

\* The mutant of JoinResults: the sub-results are pushed in the order in which
\* the children settled.
JoinByCompletion(fr, f) ==
    fr[f].urls \o BySettleOrder(fr, {k \in KidFrames(fr, f) : fr[k].outcome # "pending"})

\* The mutant of JoinResults: the sub-results come before the page's own URL.
JoinKidsFirst(fr, f) == ConcatKids(fr, fr[f].kids, 1) \o fr[f].urls

\* line 51: results.forEach(subUrls => urls.push(...subUrls)); results is in the
\* order of crawlPromises
JoinResults(fr, f) == fr[f].urls \o ConcatKids(fr, fr[f].kids, 1)

\* The mutant of OnError: the page's own URL is dropped from what is returned.
OnErrorEmpty(urls) == [outcome |-> "fulfilled", urls |-> <<>>]

\* The mutant of OnError: the catch block re-throws.
OnErrorRethrow(urls) == [outcome |-> "rejected", urls |-> urls]

\* lines 53-58: the catch block logs, and the function returns urls
OnError(urls) == [outcome |-> "fulfilled", urls |-> urls]

\* The mutant of LogError: nothing is logged.
LogNothing(log, src, url) == log

\* lines 54 and 93: logger.error
LogError(log, src, url) == Append(log, [src |-> src, url |-> url])

\* Every invocation, from f upwards, whose await of Promise.all is over
\* resumes and settles.
RECURSIVE SettleUp(_, _)
SettleUp(fr, f) ==
    IF f = NoFrame THEN fr
    ELSE IF fr[f].outcome = "pending" /\ fr[f].status = "expanded" /\ KidsJoined(fr, f)
    THEN The({SettleUp([fr EXCEPT ![f].outcome = r.outcome, ![f].urls = r.urls,
                                  ![f].seq = NumSettled(fr) + 1],
                       fr[f].parent) :
              r \in {IF \E k \in KidFrames(fr, f) : fr[k].outcome = "rejected"
                     THEN OnError(fr[f].urls)
                     ELSE [outcome |-> "fulfilled", urls |-> JoinResults(fr, f)]}})
    ELSE fr

\* new Set(urls) then Array.from: first occurrences, in order
RECURSIVE Dedup(_, _)
Dedup(s, i) ==
    IF i > Len(s) THEN <<>>
    ELSE IF \E j \in 1..(i - 1) : s[j] = s[i] THEN Dedup(s, i + 1)
    ELSE <<s[i]>> \o Dedup(s, i + 1)

NoResult == [none |-> TRUE]

\* CrawlSiteService.crawlWebsite, lines 43-62, once the top-level call settled
Finish(fr) ==
    IF fr[1].outcome = "fulfilled"
    THEN LET uniqueUrls == Dedup(fr[1].urls, 1) IN
         [phase |-> "done", returned |-> fr[1].urls,
          result |-> [crawled_urls |-> uniqueUrls, total_urls |-> Len(uniqueUrls)]]
    ELSE [phase |-> "error", returned |-> <<>>, result |-> NoResult]

\* html-escaper escape(url): & becomes &amp; (no URL here holds < > ' or ")
Escape(u) == IF u.p = "/q?a&b" THEN U(u.o, "/q?a&amp;b") ELSE u

\* The mutant of Slice: one element too many.
SliceOneMore(s, n) == SubSeq(s, 1, IF n + 1 < Len(s) THEN n + 1 ELSE Len(s))

\* Array.prototype.slice(0, n) for n >= 0
Slice(s, n) == SubSeq(s, 1, IF n < Len(s) THEN n ELSE Len(s))

\* GenerateSitemapService.generateSitemap, lines 113-147, once the top-level
\* call settled; sitemapXml is kept as the sequence of its <url> elements
FinishSitemap(fr, lim) ==
    IF fr[1].outcome = "fulfilled"
    THEN LET uniqueUrls == Dedup(fr[1].urls, 1)
             limitedUrls == Slice(uniqueUrls, lim)
         IN [phase |-> "done", returned |-> fr[1].urls,
             result |-> [sitemapXml |-> [i \in 1..Len(limitedUrls) |->
                                           [loc |-> Escape(limitedUrls[i]),
                                            lastmod |-> "today"]],
                         urlCount |-> Len(limitedUrls)]]
    ELSE [phase |-> "error", returned |-> <<>>, result |-> NoResult]

\* no checkLinksOnPage call, no second invocation
NoCheck ==
    [phase |-> "idle", pageUrl |-> S, slots |-> <<>>, checked |-> {}, gets |-> <<>>,
     probes |-> <<>>, answered |-> <<>>, results |-> <<>>, log |-> <<>>,
     pageFetch |-> "none"]
NoOther ==
    [phase |-> "idle", seed |-> S, maxDepth |-> 0, visited |-> {}, frames |-> <<>>,
     issued |-> <<>>, completed |-> <<>>, returned |-> <<>>, result |-> NoResult,
     startedAt |-> 0]

(***************************************************************************)
(* The state machine                                                       *)
(***************************************************************************)
\* nothing has been called yet
Blank ==
    /\ phase = "idle"
    /\ seed = S
    /\ maxDepth = 0
    /\ visited = {}
    /\ frames = <<>>
    /\ issued = <<>>
    /\ completed = <<>>
    /\ errorLog = <<>>
    /\ returned = <<>>
    /\ result = NoResult
    /\ tool = "crawl"
    /\ limit = 0
    /\ chk = NoCheck
    /\ other = NoOther

Init == site \in Sites /\ Blank

\* crawlWebsite(startUrl, maxDepth) up to the await of line 43
Start(startUrl, depth) ==
    /\ phase = "idle"
    /\ \E e \in {Enter([vis |-> {}, fr |-> <<>>, get |-> <<>>, max |-> depth], startUrl, 0, depth, NoFrame)} :
       /\ seed' = startUrl
       /\ maxDepth' = depth
       /\ visited' = e.st.vis
       /\ frames' = e.st.fr
       /\ issued' = e.st.get
    /\ phase' = "crawling"
    /\ UNCHANGED <<site, completed, errorLog, returned, result, aux>>

\* what the settled frames mean for crawlWebsite
Conclude(fr) ==
    IF phase = "crawling" /\ fr[1].outcome # "pending"
    THEN \E fin \in {IF tool = "sitemap" THEN FinishSitemap(fr, limit) ELSE Finish(fr)} :
         /\ phase' = fin.phase
         /\ returned' = fin.returned
         /\ result' = fin.result
    ELSE UNCHANGED <<phase, returned, result>>

\* the fetch of frame f succeeds: lines 25-51
FetchOk(f) ==
    /\ f \in 1..Len(frames)
    /\ frames[f].status = "fetching"
    /\ HasPage(frames[f].url)
    /\ \E links \in {ExtractLinks(frames[f].url, PageOf(frames[f].url))} :
       \E sp \in {SpawnKids([vis |-> visited, fr |-> frames, get |-> issued, max |-> maxDepth],
                            links, 1, f, <<>>)} :
       \E fr1 \in {[sp.st.fr EXCEPT ![f].status = "expanded", ![f].kids = sp.kids]} :
       \E fr2 \in {SettleUp(fr1, f)} :
          /\ visited' = sp.st.vis
          /\ issued' = sp.st.get
          /\ frames' = fr2
          /\ Conclude(fr2)
    /\ completed' = Append(completed, f)
    /\ UNCHANGED <<site, seed, maxDepth, errorLog, aux>>

\* the fetch of frame f fails (network error, timeout, non-2xx): lines 92-95, 53-58
FetchFail(f) ==
    /\ f \in 1..Len(frames)
    /\ frames[f].status = "fetching"
    /\ \E r \in {OnError(frames[f].urls)} :
       \E fr1 \in {[frames EXCEPT ![f].status = "failed", ![f].outcome = r.outcome,
                                  ![f].urls = r.urls, ![f].seq = NumSettled(frames) + 1]} :
       \E fr2 \in {SettleUp(fr1, frames[f].parent)} :
          /\ frames' = fr2
          /\ Conclude(fr2)
    /\ errorLog' = LogError(LogError(errorLog, "fetchHtml", frames[f].url),
                            "crawlPage", frames[f].url)
    /\ completed' = Append(completed, f)
    /\ UNCHANGED <<site, seed, maxDepth, visited, issued, aux>>

Next ==
    \/ \E u \in Seeds, d \in 0..MaxDepthBound : Start(u, d)
    \/ \E f \in 1..Len(frames) : FetchOk(f)
    \/ \E f \in 1..Len(frames) : FetchFail(f)

Spec == Init /\ [][Next]_vars

\* Every issued GET ends: axios answers, fails, or times out after 10 s
\* (line 74), so a completion that stays possible eventually happens.
Complete == \E f \in 1..Len(frames) : FetchOk(f) \/ FetchFail(f)

LiveSpec == Init /\ [][Next]_vars /\ WF_vars(Complete)

(***************************************************************************)
(* The crawl-site and generate-site-map tools: the arguments are parsed    *)
(* against TOOL_PARAMS, then the service method validates them again and   *)
(* starts the traversal.                                                   *)
(***************************************************************************)
MaxDepthAllowed == 5
MinLimitAllowed == 1
MaxLimitAllowed == 5000
MaxLimit == 3

\* strings that are no URL
EmptyUrl == U("", "")
NotAUrl == U("", "not a url")

Q == U(E, "/q?a&b")

\* a seed with five discoverable pages, one of them with an & in its URL
SitemapSite ==
    (S :> <<Rel("/q?a&b"), Rel("/a"), Rel("/q?a&b")>>) @@ (A :> <<Rel("/b")>>)
    @@ (B :> <<Rel("/t"), Rel("/")>>) @@ (T :> <<>>) @@ (Q :> <<>>)

ToolSites == Fixtures \cup {SitemapSite}
ToolUrls == {S, U(E, ""), EmptyUrl, NotAUrl}
ToolDepths == (-1)..MaxDepthBound \cup {MaxDepthAllowed, MaxDepthAllowed + 1}
ToolLimits == 0..MaxLimit \cup {MaxLimitAllowed, MaxLimitAllowed + 1}

\* z.string().url()
IsUrlSyntax(u) == u.o # ""

\* The mutant of ZodAccepts: maxDepth and limit have no upper bound and the
\* url is any string.
ZodAcceptsAnything(t, url, depth, lim) == TRUE

\* TOOL_PARAMS: url: z.string().url(), maxDepth: int().min(0).max(5),
\* limit: int().min(1).max(5000)
ZodAccepts(t, url, depth, lim) ==
    /\ IsUrlSyntax(url)
    /\ depth >= 0 /\ depth <= MaxDepthAllowed
    /\ t = "sitemap" => (lim >= MinLimitAllowed /\ lim <= MaxLimitAllowed)

\* crawlWebsite lines 31-36, generateSitemap lines 98-106
ServiceAccepts(t, url, depth, lim) ==
    /\ url # EmptyUrl
    /\ ~(depth < 0)
    /\ t = "sitemap" => ~(lim <= 0)

\* one tool request: rejected with McpError(InvalidParams), or the service
\* method runs up to its await of crawlPage (line 43, line 113)
Request(t, url, depth, lim) ==
    /\ phase = "idle"
    /\ tool' = t
    /\ limit' = lim
    /\ seed' = url
    /\ maxDepth' = depth
    /\ IF ZodAccepts(t, url, depth, lim) /\ ServiceAccepts(t, url, depth, lim)
       THEN \E e \in {Enter([vis |-> {}, fr |-> <<>>, get |-> <<>>, max |-> depth], url, 0, depth, NoFrame)} :
               /\ visited' = e.st.vis
               /\ frames' = e.st.fr
               /\ issued' = e.st.get
               /\ phase' = "crawling"
       ELSE /\ phase' = "rejected"
            /\ UNCHANGED <<visited, frames, issued>>
    /\ UNCHANGED <<site, completed, errorLog, returned, result, chk, other>>

ToolNext ==
    \/ \E u \in ToolUrls, d \in ToolDepths : Request("crawl", u, d, 0)
    \/ \E u \in ToolUrls, d \in ToolDepths, l \in ToolLimits : Request("sitemap", u, d, l)
    \/ \E f \in 1..Len(frames) : FetchOk(f)
    \/ \E f \in 1..Len(frames) : FetchFail(f)

ToolInit == site \in ToolSites /\ Blank

ToolSpec == ToolInit /\ [][ToolNext]_vars

(***************************************************************************)
(* CheckLinksService.checkLinksOnPage: one GET of the page, then one async *)
(* callback per anchor.  Every callback runs without interruption up to    *)
(* its await of isValidUrl, so the whole map of line 105 (filter, resolve, *)
(* checkedUrls.has/add, the HEAD requests) is part of the step in which    *)
(* the page arrives; each HEAD answer is a step of its own.                *)
(***************************************************************************)
\* what a HEAD request can end with
Answer(code) == [k |-> "status", code |-> code]
NetworkError == [k |-> "error"]
TimedOut == [k |-> "timeout"]
Responses == {Answer(200), Answer(204), Answer(301), Answer(404), NetworkError, TimedOut}

\* The mutant of IsValidUrl: a failed request is thrown on to the caller.
IsValidUrlRethrows(out) ==
    IF out.k = "status"
    THEN [outcome |-> "returned", value |-> (out.code >= 200 /\ out.code < 300)]
    ELSE [outcome |-> "threw", value |-> FALSE]

\* isValidUrl, webUtils.ts lines 105-119: the status test of line 114, and
\* false from the catch of lines 115-118
IsValidUrl(out) ==
    IF out.k = "status"
    THEN [outcome |-> "returned", value |-> (out.code >= 200 /\ out.code < 300)]
    ELSE [outcome |-> "returned", value |-> FALSE]

\* The mutant of StatusOf: the two statuses are swapped.
StatusOfSwapped(ret) ==
    IF ret.outcome = "threw" THEN "broken"
    ELSE IF ret.value THEN "broken" ELSE "valid"

\* lines 131-140: isValid ? 'valid' : 'broken', and 'broken' from the catch
StatusOf(ret) ==
    IF ret.outcome = "threw" THEN "broken"
    ELSE IF ret.value THEN "valid" ELSE "broken"

\* what the callback of one anchor resolves to
NullSlot == [kind |-> "null"]
EntrySlot(url, status) == [kind |-> "entry", entry |-> [url |-> url, status |-> status]]
PendingSlot(abs) == [kind |-> "pending", url |-> abs]

\* line 109: !href || startsWith('#') || startsWith('mailto:') || startsWith('tel:')
SkipHref(h) == h.k \in {"empty", "frag", "mailto", "tel"}

\* The mutant of OnUnresolvable: the malformed href is dropped.
OnUnresolvableDrops(h) == NullSlot

\* lines 118-122: the catch around new URL(href, pageUrl)
OnUnresolvable(h) == EntrySlot(h, "invalid_url")

\* The mutant of AlreadyChecked: no URL counts as checked.
AlreadyCheckedNever(checked, abs) == FALSE

\* line 125: checkedUrls.has(absoluteUrl)
AlreadyChecked(checked, abs) == abs \in checked

\* lines 105-132: the callbacks of linkElements.map in page order, each up to
\* its return or its await
RECURSIVE CheckAnchors(_, _, _, _)
CheckAnchors(pageUrl, anchors, i, st) ==
    IF i > Len(anchors) THEN st
    ELSE LET h == anchors[i] IN
         IF SkipHref(h)
         THEN CheckAnchors(pageUrl, anchors, i + 1,
                           [st EXCEPT !.slots = Append(@, NullSlot)])
         ELSE IF ~Resolvable(h)
         THEN CheckAnchors(pageUrl, anchors, i + 1,
                           [st EXCEPT !.slots = Append(@, OnUnresolvable(h)),
                                      !.log = Append(@, h)])
         ELSE LET abs == Resolve(h, pageUrl) IN
              IF AlreadyChecked(st.checked, abs)
              THEN CheckAnchors(pageUrl, anchors, i + 1,
                                [st EXCEPT !.slots = Append(@, NullSlot)])
              ELSE CheckAnchors(pageUrl, anchors, i + 1,
                                [st EXCEPT !.slots = Append(@, PendingSlot(abs)),
                                           !.checked = @ \cup {abs},
                                           !.probes = Append(@, abs)])

\* line 144: (await Promise.all(checkPromises)).filter(result => result !== null)
RECURSIVE CompletedResults(_, _)
CompletedResults(slots, i) ==
    IF i > Len(slots) THEN <<>>
    ELSE IF slots[i].kind = "entry"
         THEN <<slots[i].entry>> \o CompletedResults(slots, i + 1)
         ELSE CompletedResults(slots, i + 1)

\* lines 144-156: once no callback is pending the call returns results
Settle(c) ==
    IF \E i \in 1..Len(c.slots) : c.slots[i].kind = "pending" THEN c
    ELSE [c EXCEPT !.phase = "done", !.results = CompletedResults(c.slots, 1)]

\* The mutant of OnPageError: the call returns the empty results list.
OnPageErrorReturnsEmpty(c) == [c EXCEPT !.phase = "done"]

\* lines 147-152: the outer catch throws a ServiceError
OnPageError(c) == [c EXCEPT !.phase = "error"]

\* checkLinksOnPage(pageUrl) up to the await of line 98
StartCheck(pageUrl) ==
    /\ chk.phase = "idle"
    /\ chk' = IF pageUrl = EmptyUrl
              THEN [chk EXCEPT !.phase = "rejected", !.pageUrl = pageUrl]
              ELSE [chk EXCEPT !.phase = "fetching", !.pageUrl = pageUrl,
                               !.gets = <<pageUrl>>, !.pageFetch = "pending"]
    /\ UNCHANGED <<site, phase, seed, maxDepth, visited, frames, issued, completed,
                   errorLog, returned, result, tool, limit, other>>

\* the page arrives: lines 98-144 up to the first HEAD answer
PageOk ==
    /\ chk.phase = "fetching"
    /\ HasPage(chk.pageUrl)
    /\ chk' = Settle(CheckAnchors(chk.pageUrl, PageOf(chk.pageUrl), 1,
                                  [chk EXCEPT !.phase = "probing", !.pageFetch = "ok"]))
    /\ UNCHANGED <<site, phase, seed, maxDepth, visited, frames, issued, completed,
                   errorLog, returned, result, tool, limit, other>>

\* the fetch of the page fails: fetchHtml logs and rethrows (webUtils.ts
\* lines 92-95), the outer catch logs and throws a ServiceError (lines 147-152)
PageFail ==
    /\ chk.phase = "fetching"
    /\ chk' = OnPageError([chk EXCEPT !.pageFetch = "failed"])
    /\ errorLog' = LogError(LogError(errorLog, "fetchHtml", chk.pageUrl),
                            "checkLinksOnPage", chk.pageUrl)
    /\ UNCHANGED <<site, phase, seed, maxDepth, visited, frames, issued, completed,
                   returned, result, tool, limit, other>>

\* the HEAD request of the callback of anchor i ends with out: lines 131-140
ProbeDone(i, out) ==
    /\ chk.phase = "probing"
    /\ i \in 1..Len(chk.slots)
    /\ chk.slots[i].kind = "pending"
    /\ LET ret == IsValidUrl(out)
           url == chk.slots[i].url
       IN chk' = Settle([chk EXCEPT
                    !.slots[i] = EntrySlot(url, StatusOf(ret)),
                    !.answered = Append(@, [url |-> url, out |-> out, ret |-> ret])])
    /\ UNCHANGED <<site, phase, seed, maxDepth, visited, frames, issued, completed,
                   errorLog, returned, result, tool, limit, other>>

\* pages with anchors that repeat a URL, repeat a malformed href, or name
\* the same URL in relative and absolute form
LinksSite ==
    (S :> <<Rel("/a"), Bad, Abs(A), Tel, Rel("/b"), Bad, Rel("/a")>>)
    @@ (A :> <<Bad, Frag>>) @@ (B :> <<>>)

CheckSites == {LinksSite, ScopeSite, CycleSite}
CheckPages == {S, A, U(E, ""), EmptyUrl}

CheckNext ==
    \/ \E u \in CheckPages : StartCheck(u)
    \/ PageOk
    \/ PageFail
    \/ \E i \in 1..Len(chk.slots), out \in Responses : ProbeDone(i, out)

CheckInit == site \in CheckSites /\ Blank

CheckSpec == CheckInit /\ [][CheckNext]_vars

(***************************************************************************)
(* Two crawlWebsite calls in one process.  The first is the one of the     *)
(* state machine above; the second is kept in the record other.  Both run  *)
(* on the one event loop, so their steps interleave at the fetches.        *)
(***************************************************************************)
MaxPairDepth == 1

\* The mutant of NewVisited: the second call starts from the Set of the
\* call that is already running.
NewVisitedShared(running) == running

\* line 41 (line 111): const visited = new Set<string>()
NewVisited(running) == {}

\* crawlWebsite(startUrl, depth) up to the await of line 43, as a record
Begin(inv, startUrl, depth, vis) ==
    The({[inv EXCEPT !.phase = "crawling", !.seed = startUrl, !.maxDepth = depth,
                     !.visited = e.st.vis, !.frames = e.st.fr, !.issued = e.st.get] :
         e \in {Enter([vis |-> vis, fr |-> <<>>, get |-> <<>>, max |-> depth],
                      startUrl, 0, depth, NoFrame)}})

\* lines 43-62 on a record
Concluded(inv) ==
    IF inv.phase = "crawling" /\ inv.frames[1].outcome # "pending"
    THEN The({[inv EXCEPT !.phase = fin.phase, !.returned = fin.returned,
                          !.result = fin.result] :
              fin \in {Finish(inv.frames)}})
    ELSE inv

\* the fetch of frame f of the call inv succeeds: lines 25-51
OkStep(inv, f) ==
    The({Concluded([inv EXCEPT
                      !.visited = sp.st.vis,
                      !.issued = sp.st.get,
                      !.frames = SettleUp([sp.st.fr EXCEPT ![f].status = "expanded",
                                                           ![f].kids = sp.kids], f),
                      !.completed = Append(@, [url |-> inv.frames[f].url, ok |-> TRUE])]) :
         sp \in {SpawnKids([vis |-> inv.visited, fr |-> inv.frames, get |-> inv.issued,
                            max |-> inv.maxDepth],
                           ExtractLinks(inv.frames[f].url, PageOf(inv.frames[f].url)),
                           1, f, <<>>)}})

\* the fetch of frame f of the call inv fails: lines 53-58
FailStep(inv, f) ==
    The({Concluded([inv EXCEPT
                      !.frames = SettleUp([inv.frames EXCEPT
                                              ![f].status = "failed",
                                              ![f].outcome = r.outcome,
                                              ![f].urls = r.urls,
                                              ![f].seq = NumSettled(inv.frames) + 1],
                                          inv.frames[f].parent),
                      !.completed = Append(@, [url |-> inv.frames[f].url, ok |-> FALSE])]) :
         r \in {OnError(inv.frames[f].urls)}})

\* the second call starts while the first is in any phase
StartOther(startUrl, depth) ==
    /\ other.phase = "idle"
    /\ other' = [Begin(other, startUrl, depth, NewVisited(visited))
                    EXCEPT !.startedAt = Len(completed)]
    /\ UNCHANGED <<site, phase, seed, maxDepth, visited, frames, issued, completed,
                   errorLog, returned, result, tool, limit, chk>>

OtherFetchOk(f) ==
    /\ f \in 1..Len(other.frames)
    /\ other.frames[f].status = "fetching"
    /\ HasPage(other.frames[f].url)
    /\ other' = OkStep(other, f)
    /\ UNCHANGED <<site, phase, seed, maxDepth, visited, frames, issued, completed,
                   errorLog, returned, result, tool, limit, chk>>

OtherFetchFail(f) ==
    /\ f \in 1..Len(other.frames)
    /\ other.frames[f].status = "fetching"
    /\ other' = FailStep(other, f)
    /\ errorLog' = LogError(LogError(errorLog, "fetchHtml", other.frames[f].url),
                            "crawlPage", other.frames[f].url)
    /\ UNCHANGED <<site, phase, seed, maxDepth, visited, frames, issued, completed,
                   returned, result, tool, limit, chk>>

PairSites == {CycleSite, DiamondSite}
PairSeeds == {S, A}

PairNext ==
    \/ \E u \in PairSeeds, d \in 0..MaxPairDepth : Start(u, d)
    \/ \E u \in PairSeeds, d \in 0..MaxPairDepth : StartOther(u, d)
    \/ \E f \in 1..Len(frames) : FetchOk(f)
    \/ \E f \in 1..Len(frames) : FetchFail(f)
    \/ \E f \in 1..Len(other.frames) : OtherFetchOk(f)
    \/ \E f \in 1..Len(other.frames) : OtherFetchFail(f)

PairInit == site \in PairSites /\ Blank

PairSpec == PairInit /\ [][PairNext]_vars

\* the call inv run alone: the fetches complete in the order, and with the
\* outcomes, of comp
RECURSIVE Alone(_, _, _)
Alone(inv, comp, i) ==
    IF i > Len(comp) THEN inv
    ELSE LET fs == {f \in 1..Len(inv.frames) :
                       inv.frames[f].url = comp[i].url /\ inv.frames[f].status = "fetching"}
         IN IF fs = {} THEN Alone(inv, comp, i + 1)
            ELSE IF comp[i].ok THEN Alone(OkStep(inv, The(fs)), comp, i + 1)
            ELSE Alone(FailStep(inv, The(fs)), comp, i + 1)

(***************************************************************************)
(* crawlPage before the refactoring (unnamed/part_001): the links of a     *)
(* page are crawled one after another, each awaited before the next is     *)
(* called, so without fetch failures the traversal is a function of the    *)
(* target.                                                                 *)
(***************************************************************************)
\* href && !href.startsWith('#')
OldFollowable(h) == h.k \notin {"empty", "frag"}

\* new URL(href, url).toString(); a mailto: or tel: href is an absolute URL
\* of its own scheme
OldResolve(h, base) ==
    IF h.k \in {"mailto", "tel"} THEN U(h.k, "") ELSE Resolve(h, base)

\* String.prototype.startsWith for a URL string and an origin string
StartsWith(full, prefix) == full.o = prefix \/ (prefix = E /\ full.o = P)

\* fullUrl.startsWith(new URL(url).origin) && !links.has(fullUrl)
OldKeepLink(url, abs, links) ==
    StartsWith(abs, Origin(url)) /\ abs \notin Range(links)

RECURSIVE OldExtractFrom(_, _, _, _)
OldExtractFrom(url, anchors, i, links) ==
    IF i > Len(anchors) THEN links
    ELSE LET h == anchors[i] IN
         IF OldFollowable(h) /\ Resolvable(h) /\ OldKeepLink(url, OldResolve(h, url), links)
         THEN OldExtractFrom(url, anchors, i + 1, Append(links, OldResolve(h, url)))
         ELSE OldExtractFrom(url, anchors, i + 1, links)

\* the pre-refactor crawlPage run to its end: the urls it returns, the
\* visited set it leaves, and whether one of its fetches failed
RECURSIVE OldCrawlPage(_, _, _, _)
RECURSIVE OldCrawlLinks(_, _, _, _, _)
OldCrawlLinks(links, i, depth, max, acc) ==
    IF i > Len(links) THEN acc
    ELSE The({OldCrawlLinks(links, i + 1, depth, max,
                            [urls |-> acc.urls \o sub.urls, vis |-> sub.vis,
                             failed |-> acc.failed \/ sub.failed]) :
              sub \in {OldCrawlPage(links[i], depth + 1, max, acc.vis)}})

OldCrawlPage(url, depth, max, vis) ==
    IF Prune(url, depth, max, vis)
    THEN [urls |-> <<>>, vis |-> vis, failed |-> FALSE]
    ELSE IF ~HasPage(url)
    THEN [urls |-> <<url>>, vis |-> Claim(vis, url), failed |-> TRUE]
    ELSE OldCrawlLinks(OldExtractFrom(url, PageOf(url), 1, <<>>), 1, depth, max,
                       [urls |-> <<url>>, vis |-> Claim(vis, url), failed |-> FALSE])

(***************************************************************************)
(* Vocabulary of the properties                                            *)
(***************************************************************************)
FrameIds == 1..Len(frames)
Done == phase = "done"
Count(u, s) == Cardinality({i \in 1..Len(s) : s[i] = u})
Pos(u, s) == CHOOSE i \in 1..Len(s) : s[i] = u
Expanded == {f \in FrameIds : frames[f].status = "expanded"}
Failed == {f \in FrameIds : frames[f].status = "failed"}
Fetching == {f \in FrameIds : frames[f].status = "fetching"}

\* the crawlPage calls made so far: the top-level one and one per link of
\* every expanded page
Calls ==
    {[url |-> seed, depth |-> 0, parent |-> NoFrame, frame |-> 1] : x \in {p \in {phase} : p # "idle"}}
    \cup UNION {{[url |-> frames[f].kids[i].link, depth |-> frames[f].depth + 1,
                   parent |-> f, frame |-> frames[f].kids[i].frame] :
                  i \in 1..Len(frames[f].kids)} : f \in Expanded}

\* the absolute URLs the hrefs of page u resolve to, whatever their origin
HrefTargets(u) ==
    {Resolve(h, u) : h \in {x \in Range(PageOf(u)) : Followable(x) /\ Resolvable(x)}}

\* the URLs at most k links away from the seed through pages fetched successfully
RECURSIVE Within(_)
Within(k) ==
    IF k = 0 THEN {seed}
    ELSE LET w == Within(k - 1) IN
         w \cup UNION {HrefTargets(frames[f].url) : f \in {g \in Expanded : frames[g].url \in w}}

(***************************************************************************)
(* C1: the list the top-level crawlPage call returns holds no URL twice,   *)
(* for every target, depth, completion order and failure pattern, so the   *)
(* Set of crawlWebsite removes nothing.                                    *)
(***************************************************************************)
C1_NoDuplicates ==
    Done => /\ \A i, j \in 1..Len(returned) : returned[i] = returned[j] => i = j
            /\ result.crawled_urls = returned
            /\ result.total_urls = Len(returned)

\* a finished traversal in which some returned URL was the target of two calls
C1_Witness ==
    /\ Done
    /\ \E c, d \in Calls : /\ c.url = d.url /\ c.parent # d.parent
                           /\ c.frame # NoFrame /\ d.frame = NoFrame
                           /\ d.depth <= maxDepth

(***************************************************************************)
(* C2: the seed is in the result, every URL of the result is at most       *)
(* maxDepth links from the seed through successfully fetched pages, and no *)
(* URL is claimed or fetched at a depth above maxDepth.                    *)
(***************************************************************************)
C2_DepthBound ==
    /\ \A f \in FrameIds : /\ frames[f].depth <= maxDepth
                           /\ frames[f].url \in Within(frames[f].depth)
                           /\ issued[f] = frames[f].url
    /\ Len(issued) = Len(frames)
    /\ visited \subseteq Within(maxDepth)
    /\ Done => /\ seed \in Range(result.crawled_urls)
               /\ Range(result.crawled_urls) \subseteq Within(maxDepth)

\* a finished traversal that stopped at the depth bound: a page at depth
\* maxDepth was expanded and a link of it was not claimed by anyone
C2_Witness ==
    /\ Done
    /\ \E f \in Expanded : /\ frames[f].depth = maxDepth
                           /\ maxDepth >= 1
                           /\ \E i \in 1..Len(frames[f].kids) :
                                  frames[f].kids[i].link \notin visited

(***************************************************************************)
(* C3: every URL recorded or fetched has the origin of the seed; a         *)
(* cross-origin link is neither followed nor returned.                     *)
(***************************************************************************)
C3_SameOrigin ==
    /\ \A u \in visited \cup Range(issued) \cup Range(returned) :
           Origin(u) = Origin(seed)
    /\ Done => \A u \in Range(result.crawled_urls) : Origin(u) = Origin(seed)

\* a finished traversal that expanded a page carrying a cross-origin link
C3_Witness ==
    /\ Done
    /\ \E f \in Expanded : \E t \in HrefTargets(frames[f].url) :
           Origin(t) # Origin(seed)

\* the same-origin URLs page u links to
SameOriginTargets(u) == {t \in HrefTargets(u) : Origin(t) = Origin(u)}

(***************************************************************************)
(* C5: a failed fetch never makes the crawl fail and never affects sibling *)
(* branches: no crawlPage call rejects, the failing URL stays in the       *)
(* result, it has no children, and every link of a successfully fetched    *)
(* page that lies within the depth bound is still returned (so, link by    *)
(* link, is everything the traversal reaches through that page).           *)
(***************************************************************************)
C5_FailureIsolation ==
    /\ phase # "error"
    /\ \A f \in FrameIds : frames[f].outcome # "rejected"
    /\ \A f \in Failed : /\ frames[f].kids = <<>>
                         /\ frames[f].urls = <<frames[f].url>>
                         /\ \A g \in FrameIds : frames[g].parent # f
    /\ Done => /\ \A f \in Failed : Count(frames[f].url, returned) = 1
               /\ \A f \in FrameIds : frames[f].url \in Range(returned)
               /\ \A f \in Expanded :
                      frames[f].depth < maxDepth =>
                          SameOriginTargets(frames[f].url) \subseteq Range(returned)

\* the URLs at most k links away from the URLs of set through pages whose
\* fetch succeeded
RECURSIVE ReachThrough(_, _)
ReachThrough(set, k) ==
    IF k <= 0 THEN set
    ELSE ReachThrough(set \cup UNION {SameOriginTargets(frames[f].url) :
                                         f \in {g \in Expanded : frames[g].url \in set}},
                      k - 1)

(***************************************************************************)
(* C5 as stated: a failed fetch never makes the crawl fail and never        *)
(* affects sibling branches: no crawlPage call rejects, the failing URL     *)
(* stays in the result, it has no children, and every URL reachable within  *)
(* the depth bound through a sibling page whose fetch succeeded is          *)
(* returned.                                                                *)
(***************************************************************************)
C5_SiblingsUnaffected ==
    /\ C5_FailureIsolation
    /\ Done =>
          \A c \in Failed, b \in Expanded :
              frames[b].parent = frames[c].parent =>
                  ReachThrough({frames[b].url}, maxDepth - frames[b].depth)
                      \subseteq Range(returned)

\* a finished traversal in which, of two sibling pages, one failed and the
\* other was fetched and contributed a child of its own
C5_Witness ==
    /\ Done
    /\ \E b \in Expanded, c \in Failed :
           /\ frames[b].parent = frames[c].parent
           /\ \E g \in FrameIds : frames[g].parent = b /\ frames[g].url \in Range(returned)

(***************************************************************************)
(* C6 as the specification states it: the result returned to the caller    *)
(* holds an error entry for every page whose fetch failed.                 *)
(***************************************************************************)
C6_ErrorListReturned ==
    Done => \A f \in Failed :
                /\ "errors" \in DOMAIN result
                /\ \E e \in Range(result.errors) : e.url = frames[f].url

(***************************************************************************)
(* C6 as the code has it: a failed fetch is only logged (once by fetchHtml, *)
(* once by crawlPage); the CrawlResult has the two fields crawled_urls and *)
(* total_urls and no error list, and the failing URL is one of             *)
(* crawled_urls.                                                           *)
(***************************************************************************)
C6_ErrorsOnlyLogged ==
    /\ \A f \in FrameIds :
           /\ Count([src |-> "crawlPage", url |-> frames[f].url], errorLog)
                  = (IF f \in Failed THEN 1 ELSE 0)
           /\ Count([src |-> "fetchHtml", url |-> frames[f].url], errorLog)
                  = (IF f \in Failed THEN 1 ELSE 0)
    /\ Done => /\ DOMAIN result = {"crawled_urls", "total_urls"}
               /\ \A f \in Failed : frames[f].url \in Range(result.crawled_urls)

\* a finished traversal with a failed page and a successfully fetched one
C6_Witness ==
    /\ Done
    /\ Failed # {}
    /\ \E f \in Expanded : frames[f].kids # <<>>

(***************************************************************************)
(* C8: when several branches reach the same URL, exactly one crawlPage     *)
(* call passes the visited check, adds the URL and fetches it; every other *)
(* call for it returns [] without fetching.                                *)
(***************************************************************************)
C8_OneWinner ==
    /\ \A f, g \in FrameIds : frames[f].url = frames[g].url => f = g
    /\ \A u \in visited : Count(u, issued) = 1
    /\ Len(issued) = Len(frames)
    /\ \A c \in Calls :
           c.depth <= maxDepth =>
               /\ c.url \in visited
               /\ Cardinality({d \in Calls : d.url = c.url /\ d.frame # NoFrame}) = 1

\* two pages whose fetches were outstanding together link to the same URL:
\* the call of one claimed it, the call of the other returned []
C8_Witness ==
    \E c, d \in Calls :
        /\ c.url = d.url /\ c.frame # NoFrame /\ d.frame = NoFrame
        /\ c.parent # NoFrame /\ d.parent # NoFrame /\ c.parent # d.parent
        /\ frames[c.parent].parent = frames[d.parent].parent
        /\ d.depth <= maxDepth

(***************************************************************************)
(* C9: the top-level call returns only after every branch has resolved:    *)
(* then no fetch is outstanding, every claimed URL is fetched and expanded *)
(* or failed, and neither the result nor the visited set changes again.    *)
(***************************************************************************)
C9_AwaitedTree ==
    /\ [](Done => /\ Fetching = {}
                  /\ \A f \in FrameIds : frames[f].outcome = "fulfilled"
                  /\ \A u \in visited : \E f \in Expanded \cup Failed : frames[f].url = u
                  /\ Len(completed) = Len(issued))
    /\ [][Done => UNCHANGED <<visited, returned, result, issued>>]_vars

\* a finished traversal whose tree is three levels deep
C9_Witness ==
    /\ Done
    /\ \E f \in FrameIds : frames[f].depth >= 2

\* the URLs at most k same-origin links away from the seed in the target itself
RECURSIVE BfsWithin(_)
BfsWithin(k) ==
    IF k = 0 THEN {seed}
    ELSE LET w == BfsWithin(k - 1) IN
         w \cup UNION {SameOriginTargets(u) : u \in {x \in w : HasPage(x)}}

\* the URLs that can be reached from u by one or more same-origin links
RECURSIVE Closure(_, _)
Closure(set, n) ==
    IF n = 0 THEN set
    ELSE Closure(set \cup UNION {SameOriginTargets(x) : x \in {y \in set : HasPage(y)}}, n - 1)
OnCycle(u) ==
    HasPage(u) /\ u \in Closure(SameOriginTargets(u), Cardinality(DOMAIN site))

\* frame a is f or an ancestor of f
RECURSIVE IsAncestor(_, _)
IsAncestor(a, f) ==
    f # NoFrame /\ (f = a \/ IsAncestor(a, frames[f].parent))

(***************************************************************************)
(* C4 as the specification states it: at the end every page of a cycle     *)
(* that lies within maxDepth links of the seed is returned exactly once.   *)
(***************************************************************************)
C4_EveryCyclePageOnce ==
    Done => \A u \in BfsWithin(maxDepth) : OnCycle(u) => Count(u, returned) = 1

(***************************************************************************)
(* C4 as the code has it: a started traversal ends, on targets with cycles *)
(* and self-links too, provided every issued fetch ends; no URL is         *)
(* returned twice; a URL is returned exactly once when a call claimed it   *)
(* (the seed, and every same-origin link of a successfully fetched page    *)
(* claimed at a depth below maxDepth) and not at all otherwise.            *)
(***************************************************************************)
C4_TerminatesOnceEach ==
    /\ (phase = "crawling") ~> Done
    /\ [](Done => /\ \A u \in visited : Count(u, returned) = 1
                  /\ Range(returned) \subseteq visited
                  /\ Count(seed, returned) = 1
                  /\ \A f \in Expanded :
                         frames[f].depth < maxDepth =>
                             \A u \in SameOriginTargets(frames[f].url) :
                                 Count(u, returned) = 1)

\* a finished traversal that followed a link back to a page it was in the
\* middle of expanding (a cycle or a self-link)
C4_Witness ==
    /\ Done
    /\ \E c \in Calls : /\ c.frame = NoFrame
                        /\ c.depth <= maxDepth
                        /\ \E a \in FrameIds : /\ frames[a].url = c.url
                                               /\ IsAncestor(a, c.parent)
    /\ \E c \in Calls : c.parent # NoFrame /\ c.url = frames[c.parent].url

(***************************************************************************)
(* C7 as the specification states it: with no fetch failure the set of     *)
(* returned URLs is the same for every completion order.  When fetches     *)
(* complete in the order in which they were issued every page is claimed   *)
(* at its distance from the seed and the set is BfsWithin(maxDepth), so    *)
(* the set is the same for every order exactly when it is always that one. *)
(***************************************************************************)
C7_SameSetEveryOrder ==
    (Done /\ Failed = {}) => Range(returned) = BfsWithin(maxDepth)

\* the order that gives the reference set: fetches complete as issued
C7_FifoRun ==
    /\ Done /\ Failed = {}
    /\ site = RaceSite /\ seed = S /\ maxDepth = 3
    /\ completed = [i \in 1..Len(frames) |-> i]
    /\ Range(returned) = BfsWithin(maxDepth)

\* position of frame f among the links of its parent
LinkIndex(f) ==
    CHOOSE i \in 1..Len(frames[frames[f].parent].kids) :
        frames[frames[f].parent].kids[i].frame = f

Siblings(b, c) ==
    b # c /\ frames[b].parent # NoFrame /\ frames[b].parent = frames[c].parent

(***************************************************************************)
(* C10 as the specification states it: the result is in completion order;  *)
(* of two siblings fetched concurrently the one whose fetch completes      *)
(* first comes first in the result.                                        *)
(***************************************************************************)
C10_CompletionOrder ==
    Done => \A b, c \in FrameIds :
                (Siblings(b, c) /\ Pos(c, completed) < Pos(b, completed))
                    => Pos(frames[c].url, returned) < Pos(frames[b].url, returned)

(***************************************************************************)
(* C10 as the code has it: the result is in link order.  The result of a   *)
(* page is its URL followed by the results of its links in the order of    *)
(* the links on the page, so of two siblings the one linked first comes    *)
(* first, with everything recorded under it, whichever fetch completes     *)
(* first.                                                                  *)
(***************************************************************************)
C10_LinkOrder ==
    Done => /\ returned[1] = seed
            /\ \A f \in FrameIds :
                   frames[f].parent # NoFrame =>
                       Pos(frames[frames[f].parent].url, returned)
                           < Pos(frames[f].url, returned)
            /\ \A b, c \in FrameIds :
                   (Siblings(b, c) /\ LinkIndex(b) < LinkIndex(c)) =>
                       \A x, y \in FrameIds :
                           (IsAncestor(b, x) /\ IsAncestor(c, y)) =>
                               Pos(frames[x].url, returned) < Pos(frames[y].url, returned)

\* siblings b and c, b linked first, c fetched first and c with a child of
\* its own: b still precedes c in the result
C10_Witness ==
    /\ Done
    /\ \E b, c \in FrameIds :
           /\ Siblings(b, c) /\ LinkIndex(b) < LinkIndex(c)
           /\ Pos(c, completed) < Pos(b, completed)
           /\ \E y \in FrameIds : frames[y].parent = c
           /\ Pos(frames[b].url, returned) < Pos(frames[c].url, returned)

Min(a, b) == IF a < b THEN a ELSE b

(***************************************************************************)
(* C11: generateSitemap emits exactly min(limit, n) <url> entries, n the   *)
(* number of distinct URLs the traversal discovered; they are the first    *)
(* min(limit, n) URLs of the traversal result, in result order, each once, *)
(* and urlCount is the number of entries.                                  *)
(***************************************************************************)
C11_SitemapEntries ==
    (Done /\ tool = "sitemap") =>
        LET n == Cardinality(Range(returned))
            k == Min(limit, n)
        IN /\ Len(result.sitemapXml) = k
           /\ result.urlCount = k
           /\ \A i \in 1..k : result.sitemapXml[i].loc = Escape(returned[i])
           /\ \A i, j \in 1..k :
                  result.sitemapXml[i].loc = result.sitemapXml[j].loc => i = j

\* a sitemap cut short by its limit, with more than one entry, one of which
\* holds an escaped character
C11_Witness ==
    /\ Done /\ tool = "sitemap"
    /\ limit >= 2 /\ limit < Cardinality(Range(returned))
    /\ \E i \in 1..Len(result.sitemapXml) : result.sitemapXml[i].loc = U(E, "/q?a&amp;b")

(***************************************************************************)
(* Vocabulary of the link-check properties                                 *)
(***************************************************************************)
CheckRan == chk.phase \in {"probing", "done"}
CheckDone == chk.phase = "done"
PageAnchors == PageOf(chk.pageUrl)

\* the anchors whose href names a URL, and the URLs they name
LinkAnchors == {i \in 1..Len(PageAnchors) : PageAnchors[i].k \in {"abs", "rel"}}
CheckTargets == {Resolve(PageAnchors[i], chk.pageUrl) : i \in LinkAnchors}
AnchorsTo(u) == {i \in LinkAnchors : Resolve(PageAnchors[i], chk.pageUrl) = u}
MalformedAnchors == {i \in 1..Len(PageAnchors) : PageAnchors[i].k = "bad"}

EntriesFor(u) == {i \in 1..Len(chk.results) : chk.results[i].url = u}
AnswersFor(u) == {i \in 1..Len(chk.answered) : chk.answered[i].url = u}
ProbesFor(u) == {i \in 1..Len(chk.probes) : chk.probes[i] = u}

\* C12: for every distinct absolute URL the anchors of the page resolve to,
\* exactly one HEAD probe is issued and exactly one result entry is produced,
\* however many anchors name it and in whatever order the probes complete;
\* no probe is issued for anything else.
C12_OneProbeOneEntry ==
    CheckRan =>
        /\ \A u \in CheckTargets : Cardinality(ProbesFor(u)) = 1
        /\ Range(chk.probes) \subseteq CheckTargets
        /\ CheckDone => \A u \in CheckTargets : Cardinality(EntriesFor(u)) = 1

\* two anchors name one URL, its probe found it broken, and the probes
\* completed in the reverse of the order they were issued in
C12_Witness ==
    /\ CheckDone
    /\ \E u \in CheckTargets :
          /\ Cardinality(AnchorsTo(u)) >= 2
          /\ \E i \in EntriesFor(u) : chk.results[i].status = "broken"
    /\ Len(chk.probes) >= 2
    /\ \A i \in 1..Len(chk.probes) :
          chk.answered[i].url = chk.probes[Len(chk.probes) + 1 - i]

\* the HEAD request ended with a 2xx status
Reachable(out) == out.k = "status" /\ out.code \in 200..299

\* C13: every returned entry has a status in {valid, broken, invalid_url};
\* it is valid exactly when the probe of the entry's URL reported reachable,
\* broken exactly when the probe reported unreachable, and invalid_url only
\* for an href of the page that could not be resolved.
C13_StatusMeaning ==
    CheckDone =>
        \A i \in 1..Len(chk.results) :
            LET e == chk.results[i] IN
            /\ e.status \in {"valid", "broken", "invalid_url"}
            /\ e.status = "valid" <=>
                   \E j \in AnswersFor(e.url) : chk.answered[j].ret.value
            /\ e.status = "broken" <=>
                   \E j \in AnswersFor(e.url) : ~chk.answered[j].ret.value
            /\ e.status = "invalid_url" =>
                   \E a \in MalformedAnchors : PageAnchors[a] = e.url

\* a returned list that holds all three statuses
C13_Witness ==
    /\ CheckDone
    /\ \A st \in {"valid", "broken", "invalid_url"} :
          \E i \in 1..Len(chk.results) : chk.results[i].status = st

\* the entries of the returned list that report a malformed href
InvalidEntries == {i \in 1..Len(chk.results) : chk.results[i].status = "invalid_url"}

\* C14: an anchor whose href passes the filter of line 109 and fails to
\* resolve yields the entry {url: raw href, status: invalid_url}; no probe is
\* issued for it, and the other anchors of the page are still checked.
C14_MalformedReported ==
    CheckRan =>
        /\ \A a \in MalformedAnchors :
              chk.slots[a] = EntrySlot(PageAnchors[a], "invalid_url")
        /\ \A a \in MalformedAnchors : PageAnchors[a] \notin Range(chk.probes)
        /\ Len(chk.probes) = Cardinality(CheckTargets)
        /\ CheckDone =>
              /\ Cardinality(InvalidEntries) = Cardinality(MalformedAnchors)
              /\ \A i \in InvalidEntries :
                    \E a \in MalformedAnchors : chk.results[i].url = PageAnchors[a]
              /\ \A u \in CheckTargets : EntriesFor(u) # {}

\* a malformed href stands before a link that was then probed and found valid
C14_Witness ==
    /\ CheckDone
    /\ \E a \in MalformedAnchors, b \in LinkAnchors :
          /\ a < b
          /\ \E i \in InvalidEntries, j \in 1..Len(chk.results) :
                /\ i < j
                /\ chk.results[i].url = PageAnchors[a]
                /\ chk.results[j].url = Resolve(PageAnchors[b], chk.pageUrl)
                /\ chk.results[j].status = "valid"
                /\ AnchorsTo(chk.results[j].url) = {b}

\* C15: isValidUrl returns true only for a 2xx answer and false for every
\* network failure, timeout or other status, and never throws; the call does
\* not fail because of a probe, and the status of every link is the one its
\* own probe gave, whatever happened to the other probes.
C15_ProbeFailureIsData ==
    CheckRan =>
        /\ chk.phase # "error"
        /\ \A j \in 1..Len(chk.answered) :
              /\ chk.answered[j].ret.outcome = "returned"
              /\ chk.answered[j].ret.value <=> Reachable(chk.answered[j].out)
        /\ \A i \in 1..Len(chk.slots) :
              (chk.slots[i].kind = "entry" /\ chk.slots[i].entry.status # "invalid_url") =>
                  \E j \in AnswersFor(chk.slots[i].entry.url) :
                      chk.slots[i].entry.status =
                          IF Reachable(chk.answered[j].out) THEN "valid" ELSE "broken"
        /\ \A j \in 1..Len(chk.answered) :
              \E i \in 1..Len(chk.slots) :
                  /\ chk.slots[i].kind = "entry"
                  /\ chk.slots[i].entry.url = chk.answered[j].url

\* a probe failed on the network, another timed out, and a link whose probe
\* was answered after them is reported valid
C15_Witness ==
    /\ CheckDone
    /\ \E a, b, d \in 1..Len(chk.answered) :
          /\ a < d /\ b < d
          /\ chk.answered[a].out = NetworkError
          /\ chk.answered[b].out = TimedOut
          /\ chk.answered[d].out = Answer(204)
          /\ \E i \in EntriesFor(chk.answered[d].url) : chk.results[i].status = "valid"
          /\ \E i \in EntriesFor(chk.answered[a].url) : chk.results[i].status = "broken"

\* the request's arguments are malformed: an empty or syntactically invalid
\* URL, a maxDepth outside 0..5, or (generate-site-map) a limit outside 1..5000
Malformed ==
    \/ seed = EmptyUrl
    \/ ~IsUrlSyntax(seed)
    \/ maxDepth \notin 0..MaxDepthAllowed
    \/ tool = "sitemap" /\ limit \notin MinLimitAllowed..MaxLimitAllowed

\* C16: a crawl or sitemap request with malformed input is rejected before
\* any traversal starts: no crawlPage invocation, no page fetch, and no
\* visited set exist for it.
C16_RejectedBeforeTraversal ==
    (phase # "idle" /\ Malformed) =>
        /\ phase = "rejected"
        /\ frames = <<>>
        /\ issued = <<>>
        /\ visited = {}
        /\ result = NoResult

\* a sitemap request for a well-formed URL with maxDepth 6 has been rejected
C16_Witness ==
    /\ phase = "rejected"
    /\ tool = "sitemap"
    /\ seed = S
    /\ maxDepth = MaxDepthAllowed + 1
    /\ limit \in MinLimitAllowed..MaxLimitAllowed

\* C17: a URL is in the visited set before its fetch is issued and before
\* any of its children is claimed: whenever a fetch for u is outstanding or
\* a child of u has been registered, u is in the visited set, and every URL
\* was added there by exactly one invocation.
C17_ClaimedBeforeFetch ==
    /\ \A f \in FrameIds : frames[f].url \in visited
    /\ Range(issued) \subseteq visited
    /\ \A f \in FrameIds :
          frames[f].parent # NoFrame => frames[frames[f].parent].url \in visited
    /\ \A f, g \in FrameIds : frames[f].url = frames[g].url => f = g
    /\ Cardinality(visited) = Len(frames)

\* a child's fetch is outstanding while a sibling link to a URL that is
\* already in the visited set was pruned
C17_Witness ==
    \E f \in Fetching :
        /\ frames[f].parent # NoFrame
        /\ \E i \in 1..Len(frames[frames[f].parent].kids) :
              frames[frames[f].parent].kids[i].frame = NoFrame

\* C18: within one traversal at most one GET is issued per URL, a URL whose
\* fetch failed is not fetched again, and the number of GETs issued equals
\* the number of URLs in the result.
C18_OneGetPerUrl ==
    /\ \A i, j \in 1..Len(issued) : issued[i] = issued[j] => i = j
    /\ \A f \in Failed : Count(frames[f].url, issued) = 1
    /\ Len(issued) = Len(frames)
    /\ (Done /\ tool = "crawl") =>
          /\ Len(issued) = Len(result.crawled_urls)
          /\ Len(issued) = result.total_urls

\* a traversal ended in which a page whose fetch failed is linked from two
\* pages that were both expanded after the failure
C18_Witness ==
    /\ Done /\ tool = "crawl"
    /\ \E f \in Failed :
          /\ Cardinality({g \in Expanded : frames[f].url \in HrefTargets(frames[g].url)}) >= 2
          /\ \E g \in Expanded \ {frames[f].parent} :
                /\ frames[f].url \in HrefTargets(frames[g].url)
                /\ \E a, b \in 1..Len(completed) :
                      a < b /\ completed[a] = f /\ completed[b] = g

\* C20: when the fetch of the seed page fails, crawlWebsite completes
\* without a ServiceError and returns crawled_urls = [seed], total_urls = 1,
\* and generateSitemap returns a sitemap with exactly one entry, the seed.
C20_SeedFailure ==
    (phase \in {"done", "error"} /\ frames[1].status = "failed") =>
        /\ phase = "done"
        /\ tool = "crawl" =>
              result = [crawled_urls |-> <<seed>>, total_urls |-> 1]
        /\ tool = "sitemap" =>
              /\ Len(result.sitemapXml) = 1
              /\ result.sitemapXml[1].loc = Escape(seed)
              /\ result.urlCount = 1

\* a crawl of a seed that has links ended after the seed's fetch failed
C20_Witness ==
    /\ Done /\ tool = "crawl"
    /\ frames[1].status = "failed"
    /\ maxDepth >= 1
    /\ HasPage(seed) /\ HrefTargets(seed) # {}
    /\ errorLog # <<>>

\* the first call as a record, its completions by URL and outcome
First ==
    [phase |-> phase, seed |-> seed, maxDepth |-> maxDepth, visited |-> visited,
     frames |-> frames, issued |-> issued,
     completed |-> [i \in 1..Len(completed) |->
                      [url |-> frames[completed[i]].url,
                       ok |-> frames[completed[i]].status = "expanded"]],
     returned |-> returned, result |-> result, startedAt |-> 0]

\* what the call inv would be had it run alone with the same completions
RunAlone(inv) == Alone(Begin(NoOther, inv.seed, inv.maxDepth, {}), inv.completed, 1)

\* C19: two invocations interleaved in one process share no visited state:
\* the visited set of each holds exactly the URLs its own invocations
\* claimed, and each invocation is, at every step and in its result, what it
\* would be when run alone with the same fetch outcomes and completion order.
C19_Isolated ==
    \A inv \in {First, other} :
        inv.phase # "idle" =>
            /\ inv.visited = {inv.frames[f].url : f \in 1..Len(inv.frames)}
            /\ \E solo \in {RunAlone(inv)} :
                  /\ solo.frames = inv.frames
                  /\ solo.visited = inv.visited
                  /\ solo.issued = inv.issued
                  /\ solo.phase = inv.phase
                  /\ solo.result = inv.result

\* both calls ended; the second started while the first was waiting for
\* its children, and both claimed and fetched the same URLs
C19_Witness ==
    /\ phase = "done" /\ other.phase = "done"
    /\ other.startedAt >= 1
    /\ other.startedAt < Len(completed)
    /\ Len(other.frames) >= 2
    /\ Cardinality(visited \cap other.visited) >= 2

\* C21: with maxDepth = 0 exactly one page fetch is issued, for the seed,
\* and the result is exactly [seed], whatever links the seed page holds.
C21_DepthZero ==
    (phase \in {"crawling", "done"} /\ maxDepth = 0) =>
        /\ issued = <<seed>>
        /\ Len(frames) = 1
        /\ Done => returned = <<seed>>
        /\ (Done /\ tool = "crawl") =>
              result = [crawled_urls |-> <<seed>>, total_urls |-> 1]

\* a crawl with maxDepth = 0 ended whose seed page was fetched and links to
\* two other pages of its origin
C21_Witness ==
    /\ Done /\ maxDepth = 0
    /\ frames[1].status = "expanded"
    /\ Cardinality(SameOriginTargets(seed) \ {seed, Normalize(seed)}) >= 2

\* C22: the sitemap limit never influences the traversal: a crawlPage call
\* is cut off only by the depth bound or by the visited set, whatever the
\* limit, and the result is truncated only after the whole traversal has
\* returned (the list crawlPage returned holds every claimed URL).
C22_LimitAfterTraversal ==
    (tool = "sitemap" /\ phase \in {"crawling", "done"}) =>
        /\ \A c \in Calls : c.depth <= maxDepth => c.url \in visited
        /\ \A c \in Calls : (c.frame = NoFrame /\ c.depth <= maxDepth) =>
              \E f \in FrameIds : frames[f].url = c.url
        /\ phase = "crawling" => result = NoResult
        /\ Done =>
              /\ \A f \in FrameIds : frames[f].outcome = "fulfilled"
              /\ Len(returned) = Len(frames)
              /\ Range(returned) = visited
              /\ Len(issued) = Len(frames)
              /\ result.urlCount = Min(limit, Len(returned))

\* a sitemap was cut to fewer entries than the traversal fetched pages
C22_Witness ==
    /\ Done /\ tool = "sitemap"
    /\ limit >= 1
    /\ limit + 2 <= Len(issued)
    /\ Len(result.sitemapXml) = limit

\* the anchors of a page without those whose href does not resolve
WellFormed(anchors) == SelectSeq(anchors, LAMBDA h : h.k # "bad")

\* C23: an href that fails to resolve discards only that link: the links of
\* the page that are followed are those of the same page without the
\* malformed anchors, and the page is not treated as a failed fetch.
C23_BadLinkSkipped ==
    \A f \in Expanded :
        /\ [i \in 1..Len(frames[f].kids) |-> frames[f].kids[i].link]
               = ExtractLinks(frames[f].url, WellFormed(PageOf(frames[f].url)))
        /\ \A i \in 1..Len(errorLog) : errorLog[i].url # frames[f].url
        /\ frames[f].outcome # "rejected"
        /\ Done => \A i \in 1..Len(frames[f].kids) :
                       frames[f].kids[i].link \in Range(returned) \/ frames[f].depth = maxDepth

\* a page with a malformed href before a same-origin link was fetched, and
\* the page behind that link is in the result
C23_Witness ==
    /\ Done
    /\ \E f \in Expanded :
          \E i, j \in 1..Len(PageOf(frames[f].url)) :
              /\ i < j
              /\ PageOf(frames[f].url)[i].k = "bad"
              /\ PageOf(frames[f].url)[j].k = "rel"
              /\ \E g \in Expanded :
                    /\ frames[g].parent = f
                    /\ frames[g].url = Resolve(PageOf(frames[f].url)[j], frames[f].url)

\* C24: when the fetch of the page passed to checkLinksOnPage fails, the
\* call fails as a whole with a ServiceError: no probe is issued and no
\* result list, not even a partial one, is returned.
C24_PageFetchFailure ==
    chk.pageFetch = "failed" =>
        /\ chk.phase = "error"
        /\ chk.probes = <<>>
        /\ chk.slots = <<>>
        /\ chk.results = <<>>
        /\ chk.gets = <<chk.pageUrl>>
        /\ errorLog = <<[src |-> "fetchHtml", url |-> chk.pageUrl],
                        [src |-> "checkLinksOnPage", url |-> chk.pageUrl]>>

\* the fetch of a page that has links to probe failed
C24_Witness ==
    /\ chk.pageFetch = "failed"
    /\ HasPage(chk.pageUrl)
    /\ Cardinality(CheckTargets) >= 2

\* C30 as stated: the returned list never holds two entries with the same
\* url value, entries with status invalid_url included.
C30_NoDuplicateEntries ==
    CheckDone =>
        \A i, j \in 1..Len(chk.results) :
            chk.results[i].url = chk.results[j].url => i = j

\* C25 as stated: with no fetch failure the refactored crawlPage returns
\* the same set of URLs as the pre-refactor crawlPage, for every target,
\* seed and maxDepth.
C25_SameAsPreRefactor ==
    (Done /\ Failed = {}) =>
        \A old \in {OldCrawlPage(seed, 0, maxDepth, {})} :
            ~old.failed => Range(returned) = Range(old.urls)

\* C26 as stated: with no fetch failure every same-origin URL within
\* maxDepth links of the seed is in the result.
C26_CompleteWithinDepth ==
    (Done /\ Failed = {}) => BfsWithin(maxDepth) \subseteq Range(returned)

\* C27: when the top-level crawlPage call returns, the set of URLs in its
\* result is the visited set exactly, and every URL of the visited set was
\* recorded by exactly one invocation, once.
C27_ResultIsVisited ==
    Done =>
        /\ Range(returned) = visited
        /\ \A u \in visited :
              /\ Count(u, returned) = 1
              /\ Cardinality({f \in FrameIds : frames[f].url = u}) = 1

\* a traversal ended in which one fetch failed and one link to a visited
\* URL was pruned
C27_Witness ==
    /\ Done
    /\ Failed # {}
    /\ Cardinality(visited) >= 3
    /\ \E c \in Calls : c.frame = NoFrame /\ c.depth <= maxDepth

\* C28 as stated: a page is fetched and recorded at most once per traversal
\* even when the seed string differs from the absolute form a link to the
\* same page resolves to.
C28_SeedAndLinkAreOne ==
    /\ \A i, j \in 1..Len(issued) :
          Normalize(issued[i]) = Normalize(issued[j]) => i = j
    /\ Done => \A i, j \in 1..Len(returned) :
                   Normalize(returned[i]) = Normalize(returned[j]) => i = j

\* C29: the seed is the first element of the traversal result for every
\* completion order and failure pattern, so it is the first URL of the crawl
\* result and the first entry of a sitemap of any limit >= 1.
C29_SeedFirst ==
    Done =>
        /\ returned[1] = seed
        /\ tool = "crawl" => result.crawled_urls[1] = seed
        /\ tool = "sitemap" =>
              /\ Len(result.sitemapXml) >= 1
              /\ result.sitemapXml[1].loc = Escape(seed)

\* a sitemap of limit 1 after a traversal of several pages in which a fetch
\* failed and the seed's fetch was not the last to complete
C29_Witness ==
    /\ Done /\ tool = "sitemap" /\ limit = 1
    /\ Len(returned) >= 3
    /\ Failed # {}
    /\ frames[1].status = "expanded"
    /\ result.sitemapXml = <<[loc |-> Escape(seed), lastmod |-> "today"]>>

====
